---- MODULE Spec2Model ----
(***************************************************************************)
(* Model of src/main.py: the progression generator, the voicing optimizer  *)
(* and the MIDI timeline builder of the chord-progression practice tool.   *)
(*                                                                         *)
(* One behaviour is one call of one of the three functions.  The random    *)
(* source (random.randint, random.sample) is a nondeterministic choice.    *)
(*                                                                         *)
(* Arithmetic: the code compares |sum(candidate)/3 - target_avg| in        *)
(* floating point.  The model carries every mean and every target in      *)
(* twelfths of a semitone (mean12 = 4*sum, target12 = 12*target_avg), so   *)
(* the comparison is exact integer arithmetic.  The targets the model      *)
(* draws are the ones for which the float comparison and the exact one     *)
(* agree: quarter-semitone targets (exactly representable; two distinct    *)
(* distances then differ by at least 1/12) and the mean of the I chord of  *)
(* the same tonic (distances then differ by at least 1/3).                 *)
(***************************************************************************)
EXTENDS Integers, Sequences, FiniteSets, TLC

VARIABLES
    pc,             \* position: "idle", or the point a call has reached
    prog_length,    \* generate_progression's argument: <<>> is None, <<n>> is n
    outcome,        \* "none", "returned" or "ValueError"
    progression,    \* generate_progression's return value / the builder's input
    tonic,          \* tonic MIDI note of the call
    roman,          \* choose_best_voicing's label argument
    target12,       \* choose_best_voicing's target_avg, in twelfths
    best_voicing,   \* choose_best_voicing's return value
    durations,      \* <<chord_duration_ticks, gap_ticks, rep_gap_ticks>>
    voicings,       \* create_midi_for_progression's list of resolved voicings
    track,          \* the MidiTrack: a sequence of messages
    rep,            \* outer loop counter of the builder (0-based, as in the code)
    idx,            \* chord loop counter of the builder (0-based, as in the code)
    note            \* number of messages of the current inner loop already appended

vars == <<pc, prog_length, outcome, progression, tonic, roman, target12,
          best_voicing, durations, voicings, track, rep, idx, note>>

(***************************************************************************)
(* Bounds of the model.                                                    *)
(***************************************************************************)
\* generate_progression is called with None and with every integer in
\* -LengthBelow .. MaxLengthArg
LengthBelow == 5
MaxLengthArg == 9
\* choose_best_voicing is called with tonics TonicSpan below and above the key table
TonicSpan == 1
\* ... and with quarter-semitone targets from tonic - TargetBelow to tonic + TargetAbove
TargetBelow == 10
TargetAbove == 24
\* create_midi_for_progression is called with progressions of 1 .. MaxChords labels
MaxChords == 2

(***************************************************************************)
(* The tables.                                                             *)
(***************************************************************************)
chord_formulas ==
    ("I" :> <<0, 4, 7>>) @@ ("ii" :> <<2, 5, 9>>) @@ ("iii" :> <<4, 7, 11>>) @@
    ("IV" :> <<5, 9, 12>>) @@ ("V" :> <<7, 11, 14>>) @@ ("vi" :> <<9, 12, 16>>) @@
    ("vii°" :> <<11, 14, 17>>) @@ ("#II" :> <<3, 7, 10>>)

additional_chords == <<"ii", "iii", "IV", "V", "vi", "vii°", "#II">>

\* the tonic MIDI note numbers of the 12 keys, C .. B
possible_roots == 60..71

(***************************************************************************)
(* Helpers.                                                                *)
(***************************************************************************)
Abs(n) == IF n < 0 THEN -n ELSE n

RECURSIVE SumSeq(_)
SumSeq(s) == IF s = <<>> THEN 0 ELSE Head(s) + SumSeq(Tail(s))

RECURSIVE InjectiveSeqs(_, _)
\* every sequence of k pairwise distinct elements of the set S
InjectiveSeqs(S, k) ==
    IF k = 0 THEN {<<>>}
    ELSE UNION {{<<i>> \o p : p \in InjectiveSeqs(S \ {i}, k - 1)} : i \in S}

(***************************************************************************)
(* generate_progression                                                    *)
(***************************************************************************)
\* random.sample(population, k): whether it raises ValueError (k negative or
\* larger than the population) and, when it does not, every list it can
\* return: k distinct positions of the population, in a random order.
sample_clipped(population, k) ==
    LET n == Len(population)
        m == IF k > n THEN n ELSE k
    IN  [raises  |-> m < 0,
         results |-> IF m < 0 THEN {}
                     ELSE {[i \in 1..m |-> population[p[i]]] :
                              p \in InjectiveSeqs(1..n, m)}]

sample_with_replacement(population, k) ==
    LET n == Len(population)
    IN  [raises  |-> k < 0 \/ k > n,
         results |-> IF k < 0 \/ k > n THEN {}
                     ELSE {[i \in 1..k |-> population[p[i]]] :
                              p \in [1..k -> 1..n]}]

random_sample(population, k) ==
    LET n == Len(population)
    IN  [raises  |-> k < 0 \/ k > n,
         results |-> IF k < 0 \/ k > n THEN {}
                     ELSE {[i \in 1..k |-> population[p[i]]] :
                              p \in InjectiveSeqs(1..n, k)}]

\* random.randint(2, 4)
random_length == 2..4

\* lines 60-61: if prog_length < 1: prog_length = 1
clamp_negative_only(n) == IF n < 0 THEN 1 ELSE n

clamp_length(n) == IF n < 1 THEN 1 ELSE n

\* line 65: ["I"] + additional
without_tonic(additional) == additional

with_tonic_first(additional) == <<"I">> \o additional

\* The call, whole: arg is <<>> (None) or <<n>>; drawn is the random length
\* used when arg is None.
GenerateProgression(arg, drawn) ==
    /\ pc = "idle"
    /\ LET n == clamp_length(IF arg = <<>> THEN drawn ELSE arg[1])
           sampled == random_sample(additional_chords, n - 1)
       IN  IF n = 1
           THEN /\ outcome' = "returned"
                /\ progression' = <<"I">>
           ELSE IF sampled.raises
           THEN /\ outcome' = "ValueError"
                /\ progression' = <<>>
           ELSE /\ outcome' = "returned"
                /\ \E additional \in sampled.results :
                      progression' = with_tonic_first(additional)
    /\ prog_length' = arg
    /\ pc' = "generated"
    /\ UNCHANGED <<tonic, roman, target12, best_voicing, durations, voicings,
                   track, rep, idx, note>>

(***************************************************************************)
(* get_chord_notes, apply_inversion, choose_best_voicing                   *)
(***************************************************************************)
get_chord_notes(t, label) == [i \in 1..3 |-> t + chord_formulas[label][i]]

\* a plausible slip: inversion 1 rotates the root to the top without raising it
apply_inversion_no_octave(chord, inversion) ==
    CASE inversion = 0 -> chord
      [] inversion = 1 -> <<chord[2], chord[3], chord[1]>>
      [] inversion = 2 -> <<chord[3], chord[1] + 12, chord[2] + 12>>

apply_inversion(chord, inversion) ==
    CASE inversion = 0 -> chord
      [] inversion = 1 -> <<chord[2], chord[3], chord[1] + 12>>
      [] inversion = 2 -> <<chord[3], chord[1] + 12, chord[2] + 12>>

\* the two loops of choose_best_voicing, outer first: (inversion, octave_shift)
octave_up_pairs ==
    <<<<0, 0>>, <<0, 12>>, <<1, 0>>, <<1, 12>>, <<2, 0>>, <<2, 12>>>>

inversion_shift_pairs ==
    <<<<0, 0>>, <<0, -12>>, <<1, 0>>, <<1, -12>>, <<2, 0>>, <<2, -12>>>>

\* line 86: candidate = [note + octave_shift for note in voicing]
shift_notes(voicing, octave_shift) == [i \in 1..3 |-> voicing[i] + octave_shift]

\* lines 87-88, in twelfths: 12 * abs(sum(candidate) / len(candidate) - target_avg)
diff12(candidate, target) == Abs(4 * SumSeq(candidate) - target)

\* line 82: best_diff = float('inf'), larger than every distance
inf == -1

\* line 89: if diff < best_diff
is_closer_or_equal(diff, best_diff) == best_diff = inf \/ diff <= best_diff

is_closer(diff, best_diff) == best_diff = inf \/ diff < best_diff

RECURSIVE voicing_loop(_, _, _, _, _)
\* the loop body for the k-th pair and on, from the current best
voicing_loop(base, target, k, best, best_diff) ==
    IF k > Len(inversion_shift_pairs) THEN best
    ELSE LET pair == inversion_shift_pairs[k]
             candidate == shift_notes(apply_inversion(base, pair[1]), pair[2])
             diff == diff12(candidate, target)
         IN  IF is_closer(diff, best_diff)
             THEN voicing_loop(base, target, k + 1, candidate, diff)
             ELSE voicing_loop(base, target, k + 1, best, best_diff)

choose_best_voicing(t, label, target) ==
    voicing_loop(get_chord_notes(t, label), target, 1, <<>>, inf)

\* lines 99-100: target_avg = sum(I_chord) / len(I_chord), in twelfths
tonic_target12(t) == 4 * SumSeq(get_chord_notes(t, "I"))

Labels == DOMAIN chord_formulas

Tonics == (60 - TonicSpan)..(71 + TonicSpan)

\* the targets a call of choose_best_voicing is given: every quarter of a
\* semitone around the tonic, and the mean of the tonic's own I chord
Targets(t) ==
    {3 * q : q \in (4 * (t - TargetBelow))..(4 * (t + TargetAbove))}
        \cup {tonic_target12(t)}

ChooseBestVoicing(t, label, target) ==
    /\ pc = "idle"
    /\ tonic' = t
    /\ roman' = label
    /\ target12' = target
    /\ best_voicing' = choose_best_voicing(t, label, target)
    /\ pc' = "voiced"
    /\ UNCHANGED <<prog_length, outcome, progression, durations, voicings,
                   track, rep, idx, note>>

(***************************************************************************)
(* create_midi_for_progression                                             *)
(***************************************************************************)
\* line 94: chord_duration_ticks=960, gap_ticks=240, rep_gap_ticks=960
default_durations == <<960, 240, 960>>

set_tempo == [type |-> "set_tempo", tempo |-> 1000000, time |-> 0]

note_on(n) == [type |-> "note_on", note |-> n, velocity |-> 100, time |-> 0]

note_off(n, t) == [type |-> "note_off", note |-> n, velocity |-> 0, time |-> t]

marker(text, t) == [type |-> "marker", text |-> text, time |-> t]

\* lines 103-106
resolve_voicing(t, label) ==
    IF label = "I" THEN get_chord_notes(t, "I")
    ELSE choose_best_voicing(t, label, tonic_target12(t))

\* line 113: the note the i-th note_off (i from 0) of a chord releases
note_off_first_pitch(voicing, i) == voicing[1]

note_off_pitch(voicing, i) == voicing[i + 1]

\* line 114: time=chord_duration_ticks if i == 0 else 0
note_off_time_every(i, chord_duration_ticks) == chord_duration_ticks

note_off_time(i, chord_duration_ticks) == IF i = 0 THEN chord_duration_ticks ELSE 0

\* line 115: if idx < len(progression) - 1
has_gap_after_every(i, n) == i < n

has_gap(i, n) == i < n - 1

\* line 117: if rep < 1
has_rep_gap(r) == r < 1

\* lines 95-100: the track with its tempo message; the loops have not started
CreateMidi(prog, t, durs) ==
    /\ pc = "idle"
    /\ progression' = prog
    /\ tonic' = t
    /\ durations' = durs
    /\ track' = <<set_tempo>>
    /\ voicings' = <<>>
    /\ pc' = "resolve"
    /\ UNCHANGED <<prog_length, outcome, roman, target12, best_voicing, rep, idx, note>>

\* lines 102-107: one pass of the loop that resolves the voicings
ResolveVoicing ==
    /\ pc = "resolve"
    /\ Len(voicings) < Len(progression)
    /\ voicings' = Append(voicings, resolve_voicing(tonic, progression[Len(voicings) + 1]))
    /\ UNCHANGED <<pc, prog_length, outcome, progression, tonic, roman, target12,
                   best_voicing, durations, track, rep, idx, note>>

\* lines 108-110: the voicings are resolved, both loops start
StartLoops ==
    /\ pc = "resolve"
    /\ Len(voicings) = Len(progression)
    /\ rep' = 0
    /\ idx' = 0
    /\ note' = 0
    /\ pc' = IF Len(progression) > 0 THEN "note_on" ELSE "rep_end"
    /\ UNCHANGED <<prog_length, outcome, progression, tonic, roman, target12,
                   best_voicing, durations, voicings, track>>

\* lines 111-112: one note_on of the chord at idx
NoteOn ==
    /\ pc = "note_on"
    /\ track' = Append(track, note_on(voicings[idx + 1][note + 1]))
    /\ IF note + 1 < Len(voicings[idx + 1])
       THEN note' = note + 1 /\ pc' = pc
       ELSE note' = 0 /\ pc' = "note_off"
    /\ UNCHANGED <<prog_length, outcome, progression, tonic, roman, target12,
                   best_voicing, durations, voicings, rep, idx>>

\* lines 113-115: one note_off of the chord at idx; after the last one the
\* chord loop goes on to the gap, to the next chord or to its end
NoteOff ==
    /\ pc = "note_off"
    /\ track' = Append(track, note_off(note_off_pitch(voicings[idx + 1], note),
                                       note_off_time(note, durations[1])))
    /\ IF note + 1 < Len(voicings[idx + 1])
       THEN note' = note + 1 /\ pc' = pc /\ idx' = idx
       ELSE /\ note' = 0
            /\ IF has_gap(idx, Len(progression))
               THEN pc' = "gap" /\ idx' = idx
               ELSE IF idx + 1 < Len(progression)
               THEN pc' = "note_on" /\ idx' = idx + 1
               ELSE pc' = "rep_end" /\ idx' = idx
    /\ UNCHANGED <<prog_length, outcome, progression, tonic, roman, target12,
                   best_voicing, durations, voicings, rep>>

\* line 116: the gap marker, then the next chord
Gap ==
    /\ pc = "gap"
    /\ track' = Append(track, marker("gap", durations[2]))
    /\ IF idx + 1 < Len(progression)
       THEN pc' = "note_on" /\ idx' = idx + 1
       ELSE pc' = "rep_end" /\ idx' = idx
    /\ UNCHANGED <<prog_length, outcome, progression, tonic, roman, target12,
                   best_voicing, durations, voicings, rep, note>>

\* lines 117-118 and the next pass of `for rep in range(2)`
RepGap ==
    /\ pc = "rep_end"
    /\ rep + 1 < 2
    /\ track' = IF has_rep_gap(rep) THEN Append(track, marker("rep_gap", durations[3]))
                ELSE track
    /\ rep' = rep + 1
    /\ idx' = 0
    /\ pc' = IF Len(progression) > 0 THEN "note_on" ELSE "rep_end"
    /\ UNCHANGED <<prog_length, outcome, progression, tonic, roman, target12,
                   best_voicing, durations, voicings, note>>

\* lines 117-119 after the last repetition: return mid
ReturnMidi ==
    /\ pc = "rep_end"
    /\ rep + 1 = 2
    /\ track' = IF has_rep_gap(rep) THEN Append(track, marker("rep_gap", durations[3]))
                ELSE track
    /\ pc' = "built"
    /\ UNCHANGED <<prog_length, outcome, progression, tonic, roman, target12,
                   best_voicing, durations, voicings, rep, idx, note>>

RECURSIVE SeqsUpTo(_, _)
\* every sequence of 0 .. n elements of S
SeqsUpTo(S, n) ==
    IF n = 0 THEN {<<>>}
    ELSE LET shorter == SeqsUpTo(S, n - 1)
         IN  shorter \cup {Append(p, x) : p \in shorter, x \in S}

Progressions == SeqsUpTo(Labels, MaxChords)

DurationChoices == {default_durations, <<700, 130, 410>>}

LengthArgs == {<<>>} \cup {<<n>> : n \in (0 - LengthBelow)..MaxLengthArg}

Init ==
    /\ pc = "idle"
    /\ prog_length = <<>>
    /\ outcome = "none"
    /\ progression = <<>>
    /\ tonic = 0
    /\ roman = ""
    /\ target12 = 0
    /\ best_voicing = <<>>
    /\ durations = <<>>
    /\ voicings = <<>>
    /\ track = <<>>
    /\ rep = 0
    /\ idx = 0
    /\ note = 0

\* the three entry points, each called from the idle state with any argument
\* of the model's input sets
CallGenerateProgression ==
    /\ pc = "idle"
    /\ \E arg \in LengthArgs, drawn \in random_length : GenerateProgression(arg, drawn)

CallChooseBestVoicing ==
    /\ pc = "idle"
    /\ \E t \in Tonics, label \in Labels :
          \E target \in Targets(t) : ChooseBestVoicing(t, label, target)

CallCreateMidi ==
    /\ pc = "idle"
    /\ \E prog \in Progressions, t \in possible_roots, durs \in DurationChoices :
          CreateMidi(prog, t, durs)

Next ==
    \/ CallGenerateProgression
    \/ CallChooseBestVoicing
    \/ CallCreateMidi
    \/ ResolveVoicing
    \/ StartLoops
    \/ NoteOn
    \/ NoteOff
    \/ Gap
    \/ RepGap
    \/ ReturnMidi

Spec == Init /\ [][Next]_vars
(***************************************************************************)
(* The claims.                                                             *)
(***************************************************************************)
\* the six candidates in the order the claim lists them
ClaimOrder == <<<<0, 0>>, <<0, -12>>, <<1, 0>>, <<1, -12>>, <<2, 0>>, <<2, -12>>>>

ClaimInversion(chord, inversion) ==
    IF inversion = 0 THEN chord
    ELSE IF inversion = 1 THEN <<chord[2], chord[3], chord[1] + 12>>
    ELSE <<chord[3], chord[1] + 12, chord[2] + 12>>

ClaimCandidate(k) ==
    LET base == [i \in 1..3 |-> tonic + chord_formulas[roman][i]]
        inv == ClaimInversion(base, ClaimOrder[k][1])
    IN  [i \in 1..3 |-> inv[i] + ClaimOrder[k][2]]

\* 12 * |mean(candidate k) - target|
ClaimDistance(k) ==
    LET c == ClaimCandidate(k)
    IN  Abs(4 * (c[1] + c[2] + c[3]) - target12)

\* C1: choose_best_voicing returns one of the 6 candidates, of minimal
\* distance |mean - target| among the 6, and the first such candidate in the
\* order (inv0,0), (inv0,-12), (inv1,0), (inv1,-12), (inv2,0), (inv2,-12).
C1_FirstMinimalCandidate ==
    pc = "voiced" =>
        \E k \in 1..6 :
            /\ best_voicing = ClaimCandidate(k)
            /\ \A j \in 1..6 : ClaimDistance(k) <= ClaimDistance(j)
            /\ \A j \in 1..(k - 1) : ClaimDistance(j) > ClaimDistance(k)

\* a call whose target lies exactly between two candidates, the earlier returned
C1_Witness ==
    /\ pc = "voiced"
    /\ \E k \in 1..6 : \E j \in (k + 1)..6 :
          /\ ClaimDistance(j) = ClaimDistance(k)
          /\ \A i \in 1..6 : ClaimDistance(k) <= ClaimDistance(i)
          /\ best_voicing = ClaimCandidate(k)

\* the scenario of C2: tonic 60, label V, target the mean of [60, 64, 67]
C2_Scenario ==
    /\ pc = "voiced"
    /\ tonic = 60
    /\ roman = "V"
    /\ target12 = 4 * (60 + 64 + 67)

\* C2 as stated: in the scenario the voicing chosen for V is [62, 67, 71]
\* (inversion 2, down 12 semitones).
C2_Original == C2_Scenario => best_voicing = <<62, 67, 71>>

\* C2 amended: in the scenario the voicing chosen for V is [59, 62, 67]
\* (inversion 1 of [67, 71, 74], down 12 semitones); the builder resolves the
\* progression [I, V] at tonic 60 to [60, 64, 67], [59, 62, 67].
C2_Amended ==
    /\ C2_Scenario => best_voicing = <<59, 62, 67>>
    /\ (tonic = 60 /\ progression = <<"I", "V">> /\ Len(voicings) = 2)
           => voicings = <<<<60, 64, 67>>, <<59, 62, 67>>>>

C2_Witness == C2_Scenario /\ best_voicing = <<59, 62, 67>>

ClaimPool == {"ii", "iii", "IV", "V", "vi", "vii°", "#II"}

\* C3: for a length in 1..4 generate_progression returns exactly that many
\* labels, "I" first, the others pairwise distinct and all of the 7-entry pool.
C3_ValidLengths ==
    (pc = "generated" /\ prog_length # <<>> /\ prog_length[1] \in 1..4) =>
        /\ outcome = "returned"
        /\ Len(progression) = prog_length[1]
        /\ progression[1] = "I"
        /\ \A i \in 2..Len(progression) : progression[i] \in ClaimPool
        /\ \A i, j \in 2..Len(progression) : i # j => progression[i] # progression[j]

C3_Witness ==
    /\ pc = "generated"
    /\ prog_length = <<4>>
    /\ outcome = "returned"
    /\ Len(progression) = 4

\* C4: whenever length - 1 exceeds the pool size 7, generate_progression ends
\* in the error outcome and returns no progression.
C4_TooLongFails ==
    (pc = "generated" /\ prog_length # <<>> /\ prog_length[1] - 1 > 7) =>
        /\ outcome = "ValueError"
        /\ progression = <<>>

C4_Witness == pc = "generated" /\ prog_length = <<9>> /\ outcome = "ValueError"

\* C5 as stated: every returned progression has 1 to 4 labels, "I" first.
C5_Original ==
    (pc = "generated" /\ outcome = "returned") =>
        /\ Len(progression) \in 1..4
        /\ progression[1] = "I"

\* C5 amended: every returned progression has 1 to 8 labels (2 to 4 when the
\* length is omitted), "I" first.
C5_Amended ==
    (pc = "generated" /\ outcome = "returned") =>
        /\ Len(progression) \in 1..8
        /\ prog_length = <<>> => Len(progression) \in 2..4
        /\ progression[1] = "I"

C5_Witness ==
    /\ pc = "generated"
    /\ outcome = "returned"
    /\ prog_length = <<8>>
    /\ Len(progression) = 8

\* C6: for a length below 1 generate_progression returns ["I"], as it does
\* for length 1, whatever the random source draws.
C6_ClampedToOne ==
    (pc = "generated" /\ prog_length # <<>> /\ prog_length[1] <= 1) =>
        /\ outcome = "returned"
        /\ progression = <<"I">>

C6_Witness ==
    /\ pc = "generated"
    /\ prog_length = <<-5>>
    /\ outcome = "returned"
    /\ progression = <<"I">>

NoteOns == {p \in 1..Len(track) : track[p].type = "note_on"}

Markers(text) == {p \in 1..Len(track) : track[p].type = "marker" /\ track[p].text = text}

\* C7: the built track holds 6n note-ons, 2(n-1) "gap" markers and one
\* "rep_gap" marker, n >= 1 the number of chords.
C7_EventCounts ==
    (pc = "built" /\ Len(progression) >= 1) =>
        /\ Cardinality(NoteOns) = 6 * Len(progression)
        /\ Cardinality(Markers("gap")) = 2 * (Len(progression) - 1)
        /\ Cardinality(Markers("rep_gap")) = 1

C7_Witness ==
    /\ pc = "built"
    /\ Len(progression) = 2
    /\ Cardinality(NoteOns) = 12
    /\ Cardinality(Markers("gap")) = 2

TotalTicks == SumSeq([p \in 1..Len(track) |-> track[p].time])

\* C8: the time offsets of the built track sum to
\* 2 * (n * chordDurationTicks + (n-1) * gapTicks) + repGapTicks, which is
\* 5280 for 2 chords and the default 960/240/960.
C8_TickTotal ==
    (pc = "built" /\ Len(progression) >= 1) =>
        /\ TotalTicks = 2 * (Len(progression) * durations[1]
                               + (Len(progression) - 1) * durations[2]) + durations[3]
        /\ (Len(progression) = 2 /\ durations = <<960, 240, 960>>) => TotalTicks = 5280

C8_Witness ==
    /\ pc = "built"
    /\ Len(progression) = 2
    /\ durations = <<960, 240, 960>>
    /\ TotalTicks = 5280

\* how often pitch x is switched on, and off, among the first p messages
OnCount(x, p) == Cardinality({q \in 1..p : track[q].type = "note_on" /\ track[q].note = x})

OffCount(x, p) == Cardinality({q \in 1..p : track[q].type = "note_off" /\ track[q].note = x})

Pitches == {track[p].note : p \in {q \in 1..Len(track) : track[q].type \in {"note_on", "note_off"}}}

Silent(p) == \A x \in Pitches : OnCount(x, p) = OffCount(x, p)

\* C9: every note-on of a chord block has its note-off before the next
\* block's first note-on, so no pitch sounds where a block starts, at a
\* "gap" marker, at the "rep_gap" marker or at the end of the track; and no
\* pitch is switched off that is not sounding.  The track only grows by
\* appending, so every prefix of it is the track of an earlier state: the
\* formula looks at the last message of each state's track.
C9_NotesReleased ==
    LET p == Len(track)
    IN  /\ p > 1 =>
              /\ track[p].type = "marker" => Silent(p - 1)
              /\ (track[p].type = "note_on" /\ track[p - 1].type # "note_on")
                     => Silent(p - 1)
              /\ \A x \in Pitches : OffCount(x, p) <= OnCount(x, p)
        /\ pc = "built" => Silent(p)

C9_Witness ==
    /\ pc = "built"
    /\ Len(progression) = 2
    /\ Markers("gap") # {}
    /\ Markers("rep_gap") # {}
    /\ NoteOns # {}
    /\ Silent(Len(track))

\* C10: for a tonic of the key table, the voicing the builder resolves for a
\* label other than "I" has |sum(voicing) - (3 * tonic + 11)| <= 6.
C10_VoicingNearTonicChord ==
    \A i \in 1..Len(voicings) :
        (progression[i] # "I" /\ tonic \in 60..71) =>
            Abs(voicings[i][1] + voicings[i][2] + voicings[i][3] - (3 * tonic + 11)) <= 6

C10_Witness ==
    /\ tonic = 71
    /\ \E i \in 1..Len(voicings) :
          /\ progression[i] = "ii"
          /\ voicings[i][1] + voicings[i][2] + voicings[i][3] - (3 * tonic + 11) = 5
====
